---- MODULE Spec2Model ----
(***************************************************************************)
(* Model of DeathAndDestruction.ino: the control loop of a Zumo 32U4 sumo  *)
(* robot (border check, accelerometer contact detection, proximity         *)
(* classification, search pattern) and its RunningAverage filter.          *)
(*                                                                         *)
(* The target is an AVR (ATmega32U4): int is 16 bits, long and unsigned    *)
(* long are 32 bits.  Time is the millis() clock in milliseconds.          *)
(***************************************************************************)
EXTENDS Integers, Sequences, FiniteSets, TLC

VARIABLES
  pc,                    \* position of the single thread of control
  now,                   \* the millis() clock
  cycles,                \* number of loop() bodies executed so far
  restarts,              \* number of button presses seen by loop()
  motors,                \* last speeds given to motors.setSpeeds
  trace,                 \* calls made by the current loop() invocation
  lcd,                   \* last status character printed on the lcd
  hist,                  \* the charges and turns made so far, with their times
  in_contact, contact_made_time, last_turn_time,
  _forwardSpeed, full_speed_start_time, loop_start_time,
  firstMoveDone, ahead, roundGo, lastTime,
  sensor_values,         \* border sensor readings
  prox,                  \* proximity counts held by proxSensors
  a,                     \* raw accelerometer vector (LSM303::a)
  last,                  \* last stored accelerometer sample
  ra_x, ra_y             \* the two running averages

vars == <<pc, now, cycles, restarts, motors, trace, lcd, hist, in_contact,
          contact_made_time, last_turn_time, _forwardSpeed,
          full_speed_start_time, loop_start_time, firstMoveDone, ahead,
          roundGo, lastTime, sensor_values, prox, a, last, ra_x, ra_y>>

(***************************************************************************)
(* Program constants                                                       *)
(***************************************************************************)
RA_SIZE == 3
XY_ACCELERATION_THRESHOLD == 2400
NUM_SENSORS == 5
QTR_THRESHOLD == 500
REVERSE_SPEED == 200
TURN_SPEED == 200
SEARCH_SPEED == 200
SUSTAINED_SPEED == 400
FULL_SPEED == 400
REVERSE_DURATION == 200
TURN_DURATION == 300
RIGHT == 1
LEFT == -1
FULL_SPEED_DURATION_LIMIT == 250
MIN_DELAY_AFTER_TURN == 400
MIN_DELAY_BETWEEN_CONTACTS == 1000

\* width of int on the AVR target
INT_MIN == -32768
INT_MAX == 32767

(***************************************************************************)
(* Bounds of the model                                                     *)
(***************************************************************************)
MaxCycles == 3           \* loop() bodies per behaviour
MaxRestarts == 1         \* button presses seen by loop() per behaviour
WideCycles == 1          \* cycles of SpecWide before its last one
MaxCalls == 5            \* calls per behaviour of the RunningAverage harness
MaxFill == 4             \* largest 'number' handed to fillValue
MaxTicks == 4            \* cycles per behaviour of the forward speed harness
SearchCycles == 4        \* loop() bodies per behaviour of SpecSearch

(***************************************************************************)
(* Integer arithmetic of the target                                        *)
(***************************************************************************)

\* two's complement wrap of a value to 16 bits
Wrap16(v) == ((v + 32768) % 65536) - 32768

\* Signed overflow of an int is undefined; the result is stored in a 16 bit
\* object, and the add/subtract instructions avr-gcc emits wrap.
SignedOverflow(v) == {Wrap16(v)}

\* outcomes of an int computation whose mathematical result is v
IntResult(v) == IF v >= INT_MIN /\ v <= INT_MAX THEN {v} ELSE SignedOverflow(v)

\* C++ integer division truncates toward zero (b > 0)
TruncDiv(x, b) == IF x >= 0 THEN x \div b ELSE -((-x) \div b)

\* (x - y) > lim in unsigned long arithmetic, for x, y, lim below 2^31: when
\* x < y the difference wraps to 2^32 - (y - x), which exceeds lim.
ULDiffGreater(x, y, lim) == IF x >= y THEN x - y > lim ELSE TRUE

(***************************************************************************)
(* RunningAverage<int>                                                     *)
(***************************************************************************)

clear(ra) ==
  [ra EXCEPT !._cnt = 0, !._idx = 0, !._sum = 0,
             !._ar = [i \in 0..(ra._size - 1) |-> 0]]

\* RunningAverage(int n): the malloc'ed array is zeroed by clear()
RunningAverage(n) ==
  clear([_size |-> n, _cnt |-> 0, _idx |-> 0, _sum |-> 0,
         _ar |-> [i \in 0..(n - 1) |-> 0]])

\* the set of outcomes of addValue(f)
addValue(ra, f) ==
  LET sums == UNION { IntResult(s1 + f) : s1 \in IntResult(ra._sum - ra._ar[ra._idx]) }
  IN  { [ra EXCEPT !._sum = s2,
                   !._ar = [@ EXCEPT ![ra._idx] = f],
                   !._idx = IF ra._idx + 1 = ra._size THEN 0 ELSE ra._idx + 1,
                   !._cnt = IF ra._cnt < ra._size THEN ra._cnt + 1 ELSE ra._cnt]
        : s2 \in sums }

getAverage(ra) == IF ra._cnt = 0 THEN 0 ELSE TruncDiv(ra._sum, ra._cnt)

\* the set of objects reached from one of ras by n calls of addValue(value)
RECURSIVE addValueTimes(_, _, _)
addValueTimes(ras, value, n) ==
  IF n <= 0 THEN ras
  ELSE addValueTimes(UNION { addValue(r, value) : r \in ras }, value, n - 1)

fillValue(ra, value, number) == addValueTimes({clear(ra)}, value, number)

(***************************************************************************)
(* The program state as one record, threaded through the statements of a   *)
(* handler                                                                 *)
(***************************************************************************)
State ==
  [pc |-> pc, now |-> now, cycles |-> cycles, restarts |-> restarts,
   motors |-> motors, trace |-> trace, lcd |-> lcd, hist |-> hist,
   in_contact |-> in_contact, contact_made_time |-> contact_made_time,
   last_turn_time |-> last_turn_time, _forwardSpeed |-> _forwardSpeed,
   full_speed_start_time |-> full_speed_start_time,
   loop_start_time |-> loop_start_time, firstMoveDone |-> firstMoveDone,
   ahead |-> ahead, roundGo |-> roundGo, lastTime |-> lastTime,
   sensor_values |-> sensor_values, prox |-> prox, a |-> a, last |-> last,
   ra_x |-> ra_x, ra_y |-> ra_y]

Commit(s) ==
  /\ pc' = s.pc /\ now' = s.now /\ cycles' = s.cycles
  /\ restarts' = s.restarts /\ motors' = s.motors /\ trace' = s.trace
  /\ lcd' = s.lcd /\ hist' = s.hist /\ in_contact' = s.in_contact
  /\ contact_made_time' = s.contact_made_time
  /\ last_turn_time' = s.last_turn_time
  /\ _forwardSpeed' = s._forwardSpeed
  /\ full_speed_start_time' = s.full_speed_start_time
  /\ loop_start_time' = s.loop_start_time
  /\ firstMoveDone' = s.firstMoveDone /\ ahead' = s.ahead
  /\ roundGo' = s.roundGo /\ lastTime' = s.lastTime
  /\ sensor_values' = s.sensor_values /\ prox' = s.prox /\ a' = s.a
  /\ last' = s.last /\ ra_x' = s.ra_x /\ ra_y' = s.ra_y

\* one entry of the call trace
Ev(op, x, y) == [op |-> op, x |-> x, y |-> y]

\* motors.setSpeeds(l, r)
setSpeeds(s, l, r) ==
  [s EXCEPT !.motors = <<l, r>>, !.trace = Append(@, Ev("setSpeeds", l, r))]

\* delay(ms): the clock advances while the thread is blocked
delay(s, ms) ==
  [s EXCEPT !.now = @ + ms, !.trace = Append(@, Ev("delay", ms, 0))]

\* lcd.print(c) of a branch's status character
lcdPrint(s, c) == [s EXCEPT !.lcd = c]

(***************************************************************************)
(* Forward speed profile                                                   *)
(***************************************************************************)
setForwardSpeed(s, speed) ==
  [s EXCEPT !._forwardSpeed = speed,
            !.full_speed_start_time =
               IF speed = "FullSpeed" THEN s.loop_start_time ELSE @]

getForwardSpeed(s) ==
  CASE s._forwardSpeed = "FullSpeed" -> FULL_SPEED
    [] s._forwardSpeed = "SustainedSpeed" -> SUSTAINED_SPEED
    [] OTHER -> SEARCH_SPEED

on_contact_lost(s) ==
  LET s1 == [s EXCEPT !.in_contact = FALSE,
                      !.trace = Append(@, Ev("on_contact_lost", 0, 0))]
  IN  setForwardSpeed(s1, "SearchSpeed")

\* berserkerMode that does not stamp contact_made_time
berserkerMode_noStamp(s) ==
  [setSpeeds([s EXCEPT !.in_contact = TRUE], 400, 400) EXCEPT
     !.trace = Append(@, Ev("playFromProgramSpace", 0, 0))]

\* berserkerMode with the call of setForwardSpeed(FullSpeed) in effect
berserkerMode_fullSpeed(s) ==
  LET s1 == setForwardSpeed([s EXCEPT !.in_contact = TRUE,
                                      !.contact_made_time = s.loop_start_time],
                            "FullSpeed")
  IN  [setSpeeds(s1, 400, 400) EXCEPT
         !.trace = Append(@, Ev("playFromProgramSpace", 0, 0))]

berserkerMode(s) ==
  LET s1 == [s EXCEPT !.in_contact = TRUE,
                      !.contact_made_time = s.loop_start_time]
  IN  [setSpeeds(s1, 400, 400) EXCEPT
         !.trace = Append(@, Ev("playFromProgramSpace", 0, 0))]

(***************************************************************************)
(* Accelerometer                                                           *)
(***************************************************************************)

\* readAcceleration that drops a sample when either component repeats
readAcceleration_either(s, timestamp, x, y) ==
  LET s1 == [s EXCEPT !.a = [x |-> x, y |-> y]]
  IN  IF s1.a.x = s1.last.x \/ s1.a.y = s1.last.y
      THEN {s1}
      ELSE LET lst == [timestamp |-> timestamp, x |-> s1.a.x, y |-> s1.a.y]
           IN  { [s1 EXCEPT !.last = lst, !.ra_x = rx, !.ra_y = ry]
                 : <<rx, ry>> \in addValue(s1.ra_x, lst.x) \X addValue(s1.ra_y, lst.y) }

\* the set of outcomes of readAcceleration(timestamp) when readAcc()
\* delivers the raw vector (x, y)
readAcceleration(s, timestamp, x, y) ==
  LET s1 == [s EXCEPT !.a = [x |-> x, y |-> y]]
  IN  IF s1.a.x = s1.last.x /\ s1.a.y = s1.last.y
      THEN {s1}
      ELSE LET lst == [timestamp |-> timestamp, x |-> s1.a.x, y |-> s1.a.y]
           IN  { [s1 EXCEPT !.last = lst, !.ra_x = rx, !.ra_y = ry]
                 : <<rx, ry>> \in addValue(s1.ra_x, lst.x) \X addValue(s1.ra_y, lst.y) }

x_avg(s) == getAverage(s.ra_x)
y_avg(s) == getAverage(s.ra_y)

\* long arithmetic; the averages are 16 bit values
ss_xy_avg(s) == x_avg(s) * x_avg(s) + y_avg(s) * y_avg(s)

threshold_squared == XY_ACCELERATION_THRESHOLD * XY_ACCELERATION_THRESHOLD

\* check_for_contact whose lockout after a turn ends one millisecond early
check_for_contact_early(s) ==
  /\ ss_xy_avg(s) > threshold_squared
  /\ ULDiffGreater(s.loop_start_time, s.last_turn_time, MIN_DELAY_AFTER_TURN - 1)
  /\ ULDiffGreater(s.loop_start_time, s.contact_made_time, MIN_DELAY_BETWEEN_CONTACTS)

\* check_for_contact that accepts a contact MIN_DELAY_BETWEEN_CONTACTS ms
\* after the one before
check_for_contact_atLimit(s) ==
  /\ ss_xy_avg(s) > threshold_squared
  /\ ULDiffGreater(s.loop_start_time, s.last_turn_time, MIN_DELAY_AFTER_TURN)
  /\ ULDiffGreater(s.loop_start_time, s.contact_made_time, MIN_DELAY_BETWEEN_CONTACTS - 1)

check_for_contact(s) ==
  /\ ss_xy_avg(s) > threshold_squared
  /\ ULDiffGreater(s.loop_start_time, s.last_turn_time, MIN_DELAY_AFTER_TURN)
  /\ ULDiffGreater(s.loop_start_time, s.contact_made_time, MIN_DELAY_BETWEEN_CONTACTS)

(***************************************************************************)
(* Proximity classification.  The counts are uint8_t and are promoted to   *)
(* int in 'count - 1', so 0 - 1 is -1.                                     *)
(***************************************************************************)
\* isOponentAhead with a strict comparison
isOponentAhead_strict(s) ==
  LET sum == (s.prox.fr + s.prox.fl) % 256
  IN  sum > 6

isOponentAhead(s) ==
  LET sum == (s.prox.fr + s.prox.fl) % 256
  IN  sum >= 6

\* the core of isOponentLeft with 'count - 1' computed in uint8_t
LeftCore_uint8(s) ==
  (s.prox.fl - 1) % 256 > s.prox.fr \/ (s.prox.l - 1) % 256 > s.prox.r

LeftCore(s) == s.prox.fl - 1 > s.prox.fr \/ s.prox.l - 1 > s.prox.r
RightCore(s) == s.prox.fr - 1 > s.prox.fl \/ s.prox.r - 1 > s.prox.l

isOponentRightV(s, verifyOther) ==
  (~verifyOther \/ ~LeftCore(s)) /\ RightCore(s)

isOponentLeftV(s, verifyOther) ==
  (~verifyOther \/ ~isOponentRightV(s, FALSE)) /\ LeftCore(s)

isOponentLeft(s) == isOponentLeftV(s, TRUE)
isOponentRight(s) == isOponentRightV(s, TRUE)

isOponentMuchLeftV(s, verifyOther) ==
  /\ ~verifyOther \/ ~isOponentRightV(s, FALSE)
  /\ s.prox.fl < 3 /\ s.prox.fr < 3 /\ s.prox.l - 1 > s.prox.r

isOponentMuchRightV(s, verifyOther) ==
  /\ ~verifyOther \/ ~isOponentLeftV(s, FALSE)
  /\ s.prox.fr < 3 /\ s.prox.fl < 3 /\ s.prox.r - 1 > s.prox.l

isOponentMuchLeft(s) == isOponentMuchLeftV(s, TRUE)
isOponentMuchRight(s) == isOponentMuchRightV(s, TRUE)

(***************************************************************************)
(* turn(direction, randomize); rnd is the value random(8) returns          *)
(* direction is a char, which avr-gcc makes signed: LEFT is -1.           *)
(***************************************************************************)
duration_increment == TURN_DURATION \div 4

\* turnDelay with the random term centred on zero
turnDelay_centered(randomize, rnd) ==
  IF randomize THEN TURN_DURATION + (rnd - 4) * duration_increment
  ELSE TURN_DURATION

turnDelay(randomize, rnd) ==
  IF randomize THEN TURN_DURATION + (rnd - 2) * duration_increment
  ELSE TURN_DURATION

\* turn that stamps last_turn_time when the maneuver begins
turn_stampFirst(s, direction, randomize, rnd) ==
  LET s0 == [on_contact_lost(s) EXCEPT
               !.last_turn_time = s.now,
               !.trace = Append(@, Ev("last_turn_time", s.now, 0))]
      s2 == delay(setSpeeds(s0, -REVERSE_SPEED, -REVERSE_SPEED), REVERSE_DURATION)
      s3 == delay(setSpeeds(s2, TURN_SPEED * direction, -TURN_SPEED * direction),
                  turnDelay(randomize, rnd))
      speed == getForwardSpeed(s3)
  IN  setSpeeds(s3, speed, speed)

\* turn that also ends the search streak
turn_rearm(s, direction, randomize, rnd) ==
  LET s1 == on_contact_lost([s EXCEPT !.roundGo = FALSE])
      s2 == delay(setSpeeds(s1, -REVERSE_SPEED, -REVERSE_SPEED), REVERSE_DURATION)
      s3 == delay(setSpeeds(s2, TURN_SPEED * direction, -TURN_SPEED * direction),
                  turnDelay(randomize, rnd))
      speed == getForwardSpeed(s3)
      s4 == setSpeeds(s3, speed, speed)
  IN  [s4 EXCEPT !.last_turn_time = s4.now,
                 !.trace = Append(@, Ev("last_turn_time", s4.now, 0))]

turn(s, direction, randomize, rnd) ==
  LET s1 == on_contact_lost(s)
      s2 == delay(setSpeeds(s1, -REVERSE_SPEED, -REVERSE_SPEED), REVERSE_DURATION)
      s3 == delay(setSpeeds(s2, TURN_SPEED * direction, -TURN_SPEED * direction),
                  turnDelay(randomize, rnd))
      speed == getForwardSpeed(s3)
      s4 == setSpeeds(s3, speed, speed)
  IN  [s4 EXCEPT !.last_turn_time = s4.now,
                 !.trace = Append(@, Ev("last_turn_time", s4.now, 0))]

(***************************************************************************)
(* loop(): the statements after the button poll                            *)
(***************************************************************************)

\* lines 272-276.  The left operand of the subtraction is missing in the
\* source: the condition is the unary minus of full_speed_start_time, in
\* unsigned long arithmetic, compared with the limit.
downgrade(s) ==
  IF s._forwardSpeed = "FullSpeed"
     /\ ULDiffGreater(0, s.full_speed_start_time, FULL_SPEED_DURATION_LIMIT)
  THEN setForwardSpeed(s, "SustainedSpeed")
  ELSE s

\* lines 278-289: the opening maneuver of the first cycle after power-on
firstMove(s, randomBool) ==
  IF ~s.firstMoveDone
  THEN LET s1 == IF randomBool THEN setSpeeds(s, -400, -100)
                  ELSE setSpeeds(s, -100, -400)
           s2 == delay(s1, 400)
           s3 == delay(setSpeeds(s2, -400, -400), 200)
       IN  [s3 EXCEPT !.firstMoveDone = TRUE]
  ELSE s

\* lines 346-357: the search branch
search(s) ==
  LET s1 == IF ~s.roundGo
            THEN setSpeeds([s EXCEPT !.lastTime = s.now, !.roundGo = TRUE], -400, 400)
            ELSE IF ULDiffGreater(s.now, s.lastTime, 1000)
                 THEN setSpeeds(s, -300, 300)
                 ELSE s
  IN  lcdPrint(s1, "E")

\* a pivot or arc branch that also forgets the sticky flag
steer_clearAhead(s, l, r, c) ==
  lcdPrint(setSpeeds([s EXCEPT !.roundGo = FALSE, !.ahead = FALSE], l, r), c)

\* sets roundGo = false and issues the pivot or arc command of a branch
steer(s, l, r, c) == lcdPrint(setSpeeds([s EXCEPT !.roundGo = FALSE], l, r), c)

\* lines 309-357: the branches taken away from the border
realMeat(s) ==
  IF check_for_contact(s)
  THEN lcdPrint(berserkerMode([s EXCEPT !.roundGo = FALSE]), "C")
  ELSE IF isOponentMuchLeft(s) THEN steer(s, -400, 400, "M")
  ELSE IF isOponentMuchRight(s) THEN steer(s, 400, -400, "N")
  ELSE IF isOponentLeft(s) /\ ~s.ahead THEN steer(s, -400, 400, "L")
  ELSE IF isOponentRight(s) /\ ~s.ahead THEN steer(s, 400, -400, "R")
  ELSE IF isOponentLeft(s) /\ s.ahead THEN steer(s, 100, 400, "L")
  ELSE IF isOponentRight(s) /\ s.ahead THEN steer(s, 400, 100, "R")
  ELSE IF isOponentAhead(s) \/ s.ahead
  THEN [lcdPrint(berserkerMode([s EXCEPT !.roundGo = FALSE]), "A")
          EXCEPT !.ahead = TRUE]
  ELSE search(s)

\* a decision that looks for contact before it looks at the border
decide_contactFirst(s, rnd) ==
  IF check_for_contact(s)
  THEN lcdPrint(berserkerMode([s EXCEPT !.roundGo = FALSE]), "C")
  ELSE IF s.sensor_values[0] < QTR_THRESHOLD
  THEN [lcdPrint(turn(s, RIGHT, TRUE, rnd), "B") EXCEPT !.ahead = FALSE]
  ELSE IF s.sensor_values[NUM_SENSORS - 1] < QTR_THRESHOLD
  THEN [lcdPrint(turn(s, LEFT, TRUE, rnd), "B") EXCEPT !.ahead = FALSE]
  ELSE realMeat(s)

\* lines 293-358: the priority decision
decide(s, rnd) ==
  IF s.sensor_values[0] < QTR_THRESHOLD
  THEN [lcdPrint(turn(s, RIGHT, TRUE, rnd), "B") EXCEPT !.ahead = FALSE]
  ELSE IF s.sensor_values[NUM_SENSORS - 1] < QTR_THRESHOLD
  THEN [lcdPrint(turn(s, LEFT, TRUE, rnd), "B") EXCEPT !.ahead = FALSE]
  ELSE realMeat(s)

\* history of the cycle that ends in state s: a contact ("C") or Ahead ("A")
\* charge with the loop_start_time of its cycle, a border turn ("B") with the
\* time at which the turn ended
record(s) ==
  IF s.lcd \in {"C", "A"}
  THEN [s EXCEPT !.hist = Append(@, [op |-> s.lcd, t |-> s.loop_start_time])]
  ELSE IF s.lcd = "B"
  THEN [s EXCEPT !.hist = Append(@, [op |-> "B", t |-> s.now])]
  ELSE s

\* The set of states at the end of loop(), entered at line 258 in state s.
\*   gap   time since the previous statement that read the clock
\*   acc   raw accelerometer vector delivered by readAcc()
\*   sv    border sensor readings, pr proximity counts
\*   rt    time the sensor reads and lcd output take
\*   randomBool, rnd  values drawn from random()
body(s, gap, acc, sv, pr, rt, randomBool, rnd) ==
  LET s1 == [s EXCEPT !.now = @ + gap, !.loop_start_time = s.now + gap,
                      !.cycles = @ + 1, !.pc = "loop"]
  IN  { record(decide(firstMove(downgrade(
            [t EXCEPT !.sensor_values = sv, !.prox = pr, !.now = @ + rt]),
          randomBool), rnd))
        : t \in readAcceleration(s1, s1.loop_start_time, acc[1], acc[2]) }

(***************************************************************************)
(* Inputs of the environment.  A sensor input is a triple: the border      *)
(* sensor readings, the proximity counts and the value random(8) returns   *)
(* (read by turn only).                                                    *)
(***************************************************************************)
Gaps == {400, 1000}              \* ms between two readings of the clock
ReadTimes == {0}                 \* ms the sensor reads of a cycle take
ButtonWaits == {50}              \* ms until the button is pressed
AccSamples == {<<0, 0>>, <<3000, -2000>>}
WideAccSamples == AccSamples \cup {<<3000, 0>>}
Rand8 == 0..7                    \* the values of random(8)
MaxCount == 6                    \* proximity counts are 0..MaxCount

\* border sensor readings: only the outer two sensors are compared
Border(l, r) == [i \in 0..(NUM_SENSORS - 1) |->
                   IF i = 0 THEN l ELSE IF i = NUM_SENSORS - 1 THEN r ELSE 1000]
NoBorder == Border(QTR_THRESHOLD, QTR_THRESHOLD)
BorderLeft == Border(QTR_THRESHOLD - 1, QTR_THRESHOLD)
BorderRight == Border(QTR_THRESHOLD, QTR_THRESHOLD - 1)
BorderBoth == Border(QTR_THRESHOLD - 1, QTR_THRESHOLD - 1)
Hit(sv) == sv[0] < QTR_THRESHOLD \/ sv[NUM_SENSORS - 1] < QTR_THRESHOLD

Counts(fl, fr, l, r) == [fl |-> fl, fr |-> fr, l |-> l, r |-> r]
NoCounts == Counts(0, 0, 0, 0)
AllCounts == [fl : 0..MaxCount, fr : 0..MaxCount, l : 0..MaxCount, r : 0..MaxCount]
ProxSamples ==
  { NoCounts, Counts(5, 5, 0, 0), Counts(4, 4, 3, 0), Counts(3, 1, 0, 0),
    Counts(1, 3, 0, 0), Counts(0, 0, 2, 0), Counts(0, 0, 0, 2),
    Counts(3, 0, 0, 3) }

\* the inputs of the cycles of Spec
Inputs ==
  { <<NoBorder, NoCounts, 0>>, <<NoBorder, Counts(5, 5, 0, 0), 0>>,
    <<NoBorder, Counts(3, 1, 0, 0), 0>>,
    <<BorderLeft, NoCounts, 0>>, <<BorderRight, Counts(5, 5, 0, 0), 7>> }

\* the inputs of the first cycles of SpecWide, and those of its last cycle:
\* every quadruple of counts away from the border, every value of random(8)
\* at the border
NarrowInputs ==
  { <<NoBorder, NoCounts, 0>>, <<NoBorder, Counts(5, 5, 0, 0), 0>> }
WideInputs ==
  ({NoBorder} \X AllCounts \X {0})
  \cup ({BorderLeft, BorderRight, BorderBoth} \X ProxSamples \X Rand8)

(***************************************************************************)
(* Initial state: the globals after static initialisation and the          *)
(* constructors, before setup()                                            *)
(***************************************************************************)
Init ==
  /\ pc = "boot" /\ now = 0 /\ cycles = 0 /\ restarts = 0
  /\ motors = <<0, 0>> /\ trace = <<>> /\ lcd = "" /\ hist = <<>>
  /\ in_contact = FALSE /\ contact_made_time = 0 /\ last_turn_time = 0
  /\ _forwardSpeed = "SearchSpeed" /\ full_speed_start_time = 0
  /\ loop_start_time = 0
  /\ firstMoveDone = FALSE /\ ahead = FALSE /\ roundGo = FALSE
  /\ lastTime = 0
  /\ sensor_values = [i \in 0..(NUM_SENSORS - 1) |-> 0]
  /\ prox = Counts(0, 0, 0, 0)
  /\ a = [x |-> 0, y |-> 0]
  /\ last = [timestamp |-> 0, x |-> 0, y |-> 0]
  /\ ra_x = RunningAverage(RA_SIZE)
  /\ ra_y = RunningAverage(RA_SIZE)

(***************************************************************************)
(* Actions                                                                 *)
(***************************************************************************)

\* setup() up to the point where it blocks in waitForButtonAndCountDown
setup ==
  /\ pc = "boot"
  /\ Commit([State EXCEPT !.pc = "setup_wait"])

\* waitForButtonAndCountDown(restarting): the button is pressed after w ms,
\* the countdown runs and the loop variables are reset
waitForButtonAndCountDown ==
  /\ pc \in {"setup_wait", "loop_wait"}
  /\ \E w \in ButtonWaits :
       LET s1 == [State EXCEPT !.now = @ + w, !.lcd = "",
                               !.trace = Append(@, Ev("waitForButton", w, 0))]
           s2 == delay(delay(delay(delay(delay(s1, 990), 990), 990), 990), 990)
       IN  Commit([s2 EXCEPT
                     !.lcd = "Die!",
                     !.in_contact = FALSE,
                     !.contact_made_time = 0,
                     !.last_turn_time = s2.now,
                     !._forwardSpeed = "SearchSpeed",
                     !.full_speed_start_time = 0,
                     !.pc = IF pc = "setup_wait" THEN "loop" ELSE "loop_resume"])

\* the statements of loop() from line 258 on, for every input of the sets
\* given; the value of random(1,3) is drawn where it is read
bodyWith(s, gaps, accs, inputs) ==
  \E gap \in gaps, acc \in accs, in \in inputs, rt \in ReadTimes :
    \E randomBool \in (IF s.firstMoveDone THEN {TRUE} ELSE BOOLEAN) :
      \E t \in body(s, gap, acc, in[1], in[2], rt, randomBool, in[3]) :
        Commit(t)

\* a button poll that blocks without stopping the motors
loopWith_noStop(minc, maxc, gaps, accs, inputs) ==
  /\ pc = "loop"
  /\ minc <= cycles /\ cycles < maxc
  /\ \E pressed \in BOOLEAN :
       IF pressed
       THEN /\ restarts < MaxRestarts
            /\ Commit([State EXCEPT !.trace = <<>>, !.restarts = @ + 1,
                                    !.pc = "loop_wait"])
       ELSE bodyWith([State EXCEPT !.trace = <<>>], gaps, accs, inputs)

\* loop(): the button poll; a press stops the motors and blocks in
\* waitForButtonAndCountDown(true)
loopWith(minc, maxc, gaps, accs, inputs) ==
  /\ pc = "loop"
  /\ minc <= cycles /\ cycles < maxc
  /\ \E pressed \in BOOLEAN :
       IF pressed
       THEN /\ restarts < MaxRestarts
            /\ Commit([setSpeeds([State EXCEPT !.trace = <<>>], 0, 0) EXCEPT
                         !.restarts = @ + 1, !.pc = "loop_wait"])
       ELSE bodyWith([State EXCEPT !.trace = <<>>], gaps, accs, inputs)

\* the rest of loop() after waitForButtonAndCountDown(true) has returned
loopResumeWith(minc, maxc, gaps, accs, inputs) ==
  /\ pc = "loop_resume"
  /\ minc <= cycles /\ cycles < maxc
  /\ bodyWith(State, gaps, accs, inputs)

loop == loopWith(0, MaxCycles, Gaps, AccSamples, Inputs)
loop_resume == loopResumeWith(0, MaxCycles, Gaps, AccSamples, Inputs)

Next == setup \/ waitForButtonAndCountDown \/ loop \/ loop_resume

Spec == Init /\ [][Next]_vars

\* SpecWide: WideCycles cycles with few inputs, then one cycle with all
loopNarrow == loopWith(0, WideCycles, {1000}, AccSamples, NarrowInputs)
loopNarrow_resume == loopResumeWith(0, WideCycles, {1000}, AccSamples, NarrowInputs)
loopWide == loopWith(WideCycles, WideCycles + 1, {1000}, WideAccSamples, WideInputs)
loopWide_resume == loopResumeWith(WideCycles, WideCycles + 1, {1000}, WideAccSamples, WideInputs)

NextWide ==
  \/ setup \/ waitForButtonAndCountDown
  \/ loopNarrow \/ loopNarrow_resume \/ loopWide \/ loopWide_resume

SpecWide == Init /\ [][NextWide]_vars

\* SpecSearch: cycles that see no opponent and no contact, at short and long
\* intervals, with border turns and restarts between them
SearchGaps == {100, 600}
SearchInputs ==
  { <<NoBorder, NoCounts, 0>>, <<BorderLeft, NoCounts, 0>>,
    <<BorderRight, NoCounts, 7>> }

loopSearch == loopWith(0, SearchCycles, SearchGaps, {<<0, 0>>}, SearchInputs)
loopSearch_resume == loopResumeWith(0, SearchCycles, SearchGaps, {<<0, 0>>}, SearchInputs)

NextSearch ==
  setup \/ waitForButtonAndCountDown \/ loopSearch \/ loopSearch_resume

SpecSearch == Init /\ [][NextSearch]_vars

(***************************************************************************)
(* SpecRA: the RunningAverage<int> object ra_x driven by arbitrary calls   *)
(* of its methods.  trace holds the addValue calls since the object was    *)
(* last cleared.                                                           *)
(***************************************************************************)
IntSamples == {-20000, -7, 0, 5, 16000}

Others ==
  <<pc, now, cycles, restarts, motors, lcd, hist, in_contact, contact_made_time,
    last_turn_time, _forwardSpeed, full_speed_start_time, loop_start_time,
    firstMoveDone, ahead, roundGo, lastTime, sensor_values, prox, a, last,
    ra_y>>

\* n entries of the trace for addValue(value)
Added(value, n) == [i \in 1..n |-> Ev("addValue", value, 0)]

RunningAverage_clear ==
  /\ ra_x' = clear(ra_x)
  /\ trace' = <<>>
  /\ UNCHANGED Others

RunningAverage_addValue ==
  /\ Len(trace) < MaxCalls
  /\ \E f \in IntSamples :
       /\ ra_x' \in addValue(ra_x, f)
       /\ trace' = Append(trace, Ev("addValue", f, 0))
  /\ UNCHANGED Others

RunningAverage_fillValue ==
  /\ \E value \in IntSamples, number \in 0..MaxFill :
       /\ ra_x' \in fillValue(ra_x, value, number)
       /\ trace' = Added(value, number)
  /\ UNCHANGED Others

NextRA == RunningAverage_clear \/ RunningAverage_addValue \/ RunningAverage_fillValue

SpecRA == Init /\ [][NextRA]_vars

(***************************************************************************)
(* SpecFS: the forward speed profile driven by arbitrary calls of          *)
(* setForwardSpeed made within a cycle, and by the downgrade step at the   *)
(* top of the following cycles.                                            *)
(***************************************************************************)
ForwardSpeeds == {"SearchSpeed", "SustainedSpeed", "FullSpeed"}
TickGaps == {100, 250, 251, 400}     \* ms between two cycles

\* a call setForwardSpeed(speed) made by a cycle
ForwardSpeed_setForwardSpeed ==
  /\ cycles > 0
  /\ \E speed \in ForwardSpeeds : Commit(setForwardSpeed(State, speed))

\* lines 258 and 272-276 of the next cycle
ForwardSpeed_downgrade ==
  /\ cycles < MaxTicks
  /\ \E gap \in TickGaps :
       Commit(downgrade([State EXCEPT !.now = @ + gap,
                                      !.loop_start_time = now + gap,
                                      !.cycles = @ + 1]))

NextFS == ForwardSpeed_setForwardSpeed \/ ForwardSpeed_downgrade

SpecFS == Init /\ [][NextFS]_vars

(***************************************************************************)
(* Properties                                                              *)
(***************************************************************************)

\* sum of the values of a sequence of trace entries
RECURSIVE SumOf(_)
SumOf(evs) == IF evs = <<>> THEN 0 ELSE Head(evs).x + SumOf(Tail(evs))

\* the last n entries of a sequence
LastN(evs, n) == IF Len(evs) <= n THEN evs ELSE SubSeq(evs, Len(evs) - n + 1, Len(evs))

\* arithmetic mean of the values of the window, in int division
Mean(evs) == IF evs = <<>> THEN 0 ELSE TruncDiv(SumOf(evs), Len(evs))

\* C8: after N addValue calls on a fresh or cleared RunningAverage of capacity
\* C, getAverage() is the mean of all N values when 1 <= N <= C, of the last C
\* values when N > C, and zero when N = 0.
C8_SlidingWindowMean ==
  getAverage(ra_x) = Mean(LastN(trace, ra_x._size))

\* sum of the ring entries _ar[0 .. n)
RECURSIVE SumRing(_, _)
SumRing(ra, n) == IF n = 0 THEN 0 ELSE ra._ar[n - 1] + SumRing(ra, n - 1)

\* C9: _sum is the sum of the stored ring entries, 0 <= _cnt <= _size,
\* 0 <= _idx < _size, and the slots at index >= _cnt hold zero.
C9_RingInvariant ==
  /\ ra_x._sum = SumRing(ra_x, ra_x._cnt)
  /\ 0 <= ra_x._cnt /\ ra_x._cnt <= ra_x._size
  /\ 0 <= ra_x._idx /\ ra_x._idx < ra_x._size
  /\ \A i \in 0..(ra_x._size - 1) : i >= ra_x._cnt => ra_x._ar[i] = 0

(***************************************************************************)
(* Properties of the control loop                                          *)
(***************************************************************************)

\* loop() has just run to its end
CycleEnd == pc = "loop" /\ cycles > 0

\* waitForButtonAndCountDown has just returned
RoundStarted == pc = "loop_resume" \/ (pc = "loop" /\ cycles = 0)

\* the motor commands of the contact and proximity branches
BranchCommands ==
  { Ev("setSpeeds", 400, 400), Ev("setSpeeds", -400, 400),
    Ev("setSpeeds", 400, -400), Ev("setSpeeds", 100, 400),
    Ev("setSpeeds", 400, 100), Ev("setSpeeds", -300, 300),
    Ev("playFromProgramSpace", 0, 0) }

\* the pivot delays of a randomized turn
RandomizedDelays == { TURN_DURATION + (k - 2) * (TURN_DURATION \div 4) : k \in Rand8 }

\* the current invocation of loop() ended with the maneuver of
\* turn(direction, true)
EndedWithTurn(direction) ==
  /\ Len(trace) >= 7
  /\ LET t == LastN(trace, 7)
     IN  /\ t[1] = Ev("on_contact_lost", 0, 0)
         /\ t[2] = Ev("setSpeeds", -REVERSE_SPEED, -REVERSE_SPEED)
         /\ t[3] = Ev("delay", REVERSE_DURATION, 0)
         /\ t[4] = Ev("setSpeeds", TURN_SPEED * direction, -TURN_SPEED * direction)
         /\ t[5].op = "delay" /\ t[5].x \in RandomizedDelays
         /\ t[6].op = "setSpeeds" /\ t[6].x = t[6].y
         /\ t[7].op = "last_turn_time"

\* C1: a cycle whose leftmost sensor is below the threshold executes
\* turn(RIGHT, true), otherwise one whose rightmost sensor is below it executes
\* turn(LEFT, true); such a cycle issues no contact, pivot, arc or search
\* command whatever the other readings are, and ends with ahead = false.
C1_BorderPriority ==
  (CycleEnd /\ Hit(sensor_values)) =>
     /\ lcd = "B"
     /\ EndedWithTurn(IF sensor_values[0] < QTR_THRESHOLD THEN RIGHT ELSE LEFT)
     /\ \A i \in DOMAIN trace : trace[i] \notin BranchCommands
     /\ ahead = FALSE

\* a border cycle in which the contact check would have fired and the
\* proximity counts say Ahead
C1_Witness ==
  /\ CycleEnd /\ lcd = "B"
  /\ sensor_values = BorderRight
  /\ prox = Counts(5, 5, 0, 0)
  /\ ss_xy_avg(State) > threshold_squared
  /\ loop_start_time - contact_made_time > MIN_DELAY_BETWEEN_CONTACTS

\* C2: a call of turn does, in this order: on_contact_lost once, reverse at
\* (-REVERSE_SPEED, -REVERSE_SPEED) for REVERSE_DURATION, pivot, forward at
\* (s, s) with s the forward speed of the profile, and last of all stamps
\* last_turn_time with the time at the end of the maneuver.
C2_TurnSequence ==
  (CycleEnd /\ lcd = "B") =>
     /\ Len(trace) >= 7
     /\ Cardinality({ i \in DOMAIN trace : trace[i].op = "on_contact_lost" }) = 1
     /\ LET t == LastN(trace, 7)
            s == getForwardSpeed(State)
        IN  /\ t[1] = Ev("on_contact_lost", 0, 0)
            /\ t[2] = Ev("setSpeeds", -REVERSE_SPEED, -REVERSE_SPEED)
            /\ t[3] = Ev("delay", REVERSE_DURATION, 0)
            /\ t[4] \in { Ev("setSpeeds", TURN_SPEED * d, -TURN_SPEED * d) : d \in {RIGHT, LEFT} }
            /\ t[5].op = "delay"
            /\ t[6] = Ev("setSpeeds", s, s)
            /\ t[7] = Ev("last_turn_time", now, 0)
            /\ motors = <<s, s>>
            /\ last_turn_time = now
            /\ last_turn_time >= loop_start_time + REVERSE_DURATION + t[5].x
     /\ in_contact = FALSE
     /\ _forwardSpeed = "SearchSpeed"

\* a turn made while the robot was in contact, with the longest pivot
C2_Witness ==
  /\ CycleEnd /\ lcd = "B" /\ cycles > 1
  /\ contact_made_time > 0
  /\ last_turn_time = loop_start_time + REVERSE_DURATION + TURN_DURATION + 5 * duration_increment

\* C3: away from the border, the contact branch is taken exactly when the
\* smoothed squared magnitude exceeds the squared threshold, more than
\* MIN_DELAY_AFTER_TURN ms lie between the end of the last turn (or the round
\* start) and loop_start_time, and more than MIN_DELAY_BETWEEN_CONTACTS ms
\* between contact_made_time and loop_start_time.
C3_ContactLockout ==
  [][ (cycles' = cycles + 1 /\ ~Hit(sensor_values')) =>
        ( (lcd' = "C") <=>
            /\ ss_xy_avg(State)' > XY_ACCELERATION_THRESHOLD * XY_ACCELERATION_THRESHOLD
            /\ loop_start_time' - last_turn_time > MIN_DELAY_AFTER_TURN
            /\ loop_start_time' - contact_made_time > MIN_DELAY_BETWEEN_CONTACTS ) ]_vars

\* the magnitude is above the threshold exactly MIN_DELAY_AFTER_TURN ms
\* after a turn, and contact is not detected
C3_Witness ==
  /\ CycleEnd /\ ~Hit(sensor_values) /\ lcd # "C"
  /\ ss_xy_avg(State) > threshold_squared
  /\ last_turn_time > 0
  /\ loop_start_time - last_turn_time = MIN_DELAY_AFTER_TURN
  /\ loop_start_time - contact_made_time > MIN_DELAY_BETWEEN_CONTACTS

\* x dominates y: the difference is at least two
Dominates(x, y) == x - 1 > y
SideLeft == Dominates(prox.fl, prox.fr) \/ Dominates(prox.l, prox.r)
SideRight == Dominates(prox.fr, prox.fl) \/ Dominates(prox.r, prox.l)
\* the counts select Left, Right, MuchLeft or MuchRight
Sideways == (SideLeft /\ ~SideRight) \/ (SideRight /\ ~SideLeft)

\* C4 as stated: Ahead has the highest priority, so front counts that sum
\* to 6 or more select the Ahead branch whatever the side counts are.
C4_AheadFirst ==
  (CycleEnd /\ ~Hit(sensor_values) /\ lcd # "C" /\ prox.fl + prox.fr >= 6)
     => lcd = "A"

\* C4 as amended: a cycle away from the border without contact selects
\* exactly one of Ahead, MuchLeft, MuchRight, Left, Right, None; Ahead has
\* the lowest priority of the detections: front counts that sum to 6 or more
\* select Ahead when the counts select none of the four sideways classes,
\* and the sideways branch otherwise.
C4_AheadLast ==
  (CycleEnd /\ ~Hit(sensor_values) /\ lcd # "C") =>
     /\ lcd \in {"A", "M", "N", "L", "R", "E"}
     /\ (prox.fl + prox.fr >= 6 /\ ~Sideways) => lcd = "A"
     /\ Sideways => lcd \in {"M", "N", "L", "R"}
     /\ (prox.fl + prox.fr < 6 /\ ~Sideways /\ lcd = "A") => ahead

\* front counts that sum to exactly 6 select Ahead although a side count is
\* not zero
C4_Witness ==
  /\ CycleEnd /\ lcd = "A"
  /\ prox = Counts(3, 3, 1, 0)

\* C5: a cycle away from the border whose front counts sum to 6 or more and
\* whose counts select no sideways class ends with the motor command
\* (400, 400), in_contact and contact_made_time = loop_start_time; ahead is
\* set when the Ahead branch was taken.
C5_AheadBerserker ==
  (CycleEnd /\ ~Hit(sensor_values) /\ prox.fl + prox.fr >= 6 /\ ~Sideways) =>
     /\ lcd \in {"A", "C"}
     /\ motors = <<400, 400>>
     /\ Len(trace) >= 2 /\ trace[Len(trace) - 1] = Ev("setSpeeds", 400, 400)
     /\ in_contact
     /\ contact_made_time = loop_start_time
     /\ lcd = "A" => ahead

\* the scenario of the claim, in a cycle after the first
C5_Witness ==
  /\ CycleEnd /\ cycles > 1 /\ lcd = "A"
  /\ prox = Counts(5, 5, 0, 0)
  /\ contact_made_time = loop_start_time /\ in_contact /\ ahead

\* C6: the first cycle of a run of search cycles issues the pivot
\* (-400, 400) and records the start time; a later cycle of the run issues
\* nothing while at most 1000 ms have passed since the start and issues
\* (-300, 300) once more than 1000 ms have passed.
C6_SearchStreak ==
  [][ (cycles' = cycles + 1 /\ lcd' = "E") =>
        IF lcd # "E"
        THEN /\ Ev("setSpeeds", -400, 400) \in { trace'[i] : i \in DOMAIN trace' }
             /\ motors' = <<-400, 400>>
             /\ lastTime' = now'
        ELSE /\ lastTime' = lastTime
             /\ now' - lastTime > 1000 => motors' = <<-300, 300>>
             /\ now' - lastTime <= 1000 => trace' = <<>> ]_vars

\* C7: every return of waitForButtonAndCountDown leaves the motion state at
\* its initial values.
C7_RoundStartReset ==
  RoundStarted =>
     /\ in_contact = FALSE
     /\ contact_made_time = 0
     /\ last_turn_time = now
     /\ _forwardSpeed = "SearchSpeed"
     /\ ahead = FALSE
     /\ roundGo = FALSE
     /\ lastTime = 0

\* r2 is r after one value v was added (the sum apart)
OneAdded(r, r2, v) ==
  /\ r2._size = r._size
  /\ r2._ar = [r._ar EXCEPT ![r._idx] = v]
  /\ r2._idx = (r._idx + 1) % r._size
  /\ r2._cnt = IF r._cnt < r._size THEN r._cnt + 1 ELSE r._size

\* C10: a readAcceleration call whose raw (x, y) equals the last stored
\* sample changes neither the sample nor the running averages; any other
\* call stores the sample, which differs from the one stored before, and
\* adds one value to each running average.
C10_DuplicateSuppression ==
  [][ (cycles' = cycles + 1) =>
        IF a'.x = last.x /\ a'.y = last.y
        THEN last' = last /\ ra_x' = ra_x /\ ra_y' = ra_y
        ELSE /\ last' = [timestamp |-> loop_start_time', x |-> a'.x, y |-> a'.y]
             /\ <<last'.x, last'.y>> # <<last.x, last.y>>
             /\ OneAdded(ra_x, ra_x', a'.x)
             /\ OneAdded(ra_y, ra_y', a'.y) ]_vars

\* a cycle that read the stored sample again, and an earlier one that
\* stored a sample repeating one component only
C10_Witness ==
  /\ CycleEnd /\ cycles > 1
  /\ a.x = last.x /\ a.y = last.y
  /\ last.timestamp < loop_start_time
  /\ ra_x._cnt > 0

\* C11: a cycle in which check_for_contact() returns true leaves the forward
\* speed profile at FullSpeed, so that getForwardSpeed() returns FULL_SPEED.
C11_ContactFullSpeed ==
  (CycleEnd /\ lcd = "C") =>
     /\ _forwardSpeed = "FullSpeed"
     /\ getForwardSpeed(State) = FULL_SPEED

\* C12: setForwardSpeed(FullSpeed) stamps full_speed_start_time with
\* loop_start_time; at the top of a cycle a FullSpeed profile becomes
\* SustainedSpeed exactly when more than FULL_SPEED_DURATION_LIMIT ms lie
\* between full_speed_start_time and loop_start_time, and stays FullSpeed
\* otherwise.
C12_Escalation ==
  [][ /\ (cycles' = cycles /\ _forwardSpeed' = "FullSpeed")
           => full_speed_start_time' = loop_start_time
      /\ (cycles' = cycles + 1 /\ _forwardSpeed = "FullSpeed")
           => _forwardSpeed' =
                IF loop_start_time' - full_speed_start_time > FULL_SPEED_DURATION_LIMIT
                THEN "SustainedSpeed" ELSE "FullSpeed" ]_vars

\* the core conditions of MuchLeft and MuchRight
MuchLeftCore == prox.fl < 3 /\ prox.fr < 3 /\ Dominates(prox.l, prox.r)
MuchRightCore == prox.fl < 3 /\ prox.fr < 3 /\ Dominates(prox.r, prox.l)

\* C13: for every quadruple of counts isOponentMuchLeft() is true exactly
\* when both front counts are below 3, left - 1 > right and the core
\* condition of MuchRight is false; symmetrically for isOponentMuchRight().
C13_MuchLeftRule ==
  /\ isOponentMuchLeft(State) <=> (MuchLeftCore /\ ~MuchRightCore)
  /\ isOponentMuchRight(State) <=> (MuchRightCore /\ ~MuchLeftCore)

\* the two counts of a pair differ by at most one
Close(x, y) == x - y <= 1 /\ y - x <= 1

\* C14: for every quadruple of counts isOponentLeft() is true exactly when
\* the front or the side pair favours the left by two or more and neither
\* pair favours the right by two or more, and symmetrically for
\* isOponentRight(); the two are never both true, both are false when the
\* pairs favour opposite sides, and a pair that differs by at most one
\* favours no side, a count of zero included.
C14_LeftRightArbitration ==
  LET Left == isOponentLeft(State)
      Right == isOponentRight(State)
  IN  /\ Left <=> (SideLeft /\ ~SideRight)
      /\ Right <=> (SideRight /\ ~SideLeft)
      /\ ~(Left /\ Right)
      /\ (SideLeft /\ SideRight) => (~Left /\ ~Right)
      /\ (Close(prox.fl, prox.fr) /\ Close(prox.l, prox.r)) => (~Left /\ ~Right)
      /\ (CycleEnd /\ ~Hit(sensor_values) /\ lcd = "L") => Left
      /\ (CycleEnd /\ ~Hit(sensor_values) /\ lcd = "R") => Right

\* the front pair favours the left and the side pair the right: the cycle
\* falls through to the search branch
C14_Witness ==
  /\ CycleEnd /\ lcd = "E"
  /\ prox = Counts(3, 0, 0, 3)
  /\ ~isOponentLeft(State) /\ ~isOponentRight(State)

\* the pivot delay of the turn that ended the current invocation of loop()
PivotDelay == LastN(trace, 7)[5].x

\* TURN_DURATION plus k quarter-increments, for k in lo..hi
Quarters(lo, hi) == { TURN_DURATION + k * (TURN_DURATION \div 4) : k \in lo..hi }

\* C15 as stated: the pivot of turn(direction, true) lasts TURN_DURATION plus
\* k quarter-increments with k in -2..2, between 150 and 450 ms; with
\* randomize = false it lasts TURN_DURATION.
C15_PivotPlusMinusTwo ==
  /\ (CycleEnd /\ lcd = "B") =>
        /\ PivotDelay \in Quarters(-2, 2)
        /\ 150 <= PivotDelay /\ PivotDelay <= 450
  /\ \A rnd \in Rand8 : turnDelay(FALSE, rnd) = TURN_DURATION

\* C15 as amended: k ranges over -2..5, so the pivot lasts between 150 and
\* 675 ms and is never negative; with randomize = false it lasts
\* TURN_DURATION.
C15_PivotRange ==
  /\ (CycleEnd /\ lcd = "B") =>
        /\ Len(trace) >= 7 /\ LastN(trace, 7)[5].op = "delay"
        /\ PivotDelay \in Quarters(-2, 5)
        /\ 150 <= PivotDelay /\ PivotDelay <= 675
        /\ last_turn_time - loop_start_time = REVERSE_DURATION + PivotDelay
             + (IF cycles = 1 THEN 600 ELSE 0)
  /\ \A rnd \in Rand8 : turnDelay(FALSE, rnd) = TURN_DURATION

\* a turn whose pivot lasts the longest time, 675 ms
C15_Witness ==
  /\ CycleEnd /\ lcd = "B"
  /\ PivotDelay = TURN_DURATION + 5 * (TURN_DURATION \div 4)
  /\ motors = <<SEARCH_SPEED, SEARCH_SPEED>>

\* the classification of the counts held by proxSensors
Much == isOponentMuchLeft(State) \/ isOponentMuchRight(State)
ClassLeft == isOponentLeft(State) /\ ~Much
ClassRight == isOponentRight(State) /\ ~Much
ClassNone == ~isOponentLeft(State) /\ ~isOponentRight(State) /\ ~Much

\* C16: ahead becomes true only in the Ahead branch and becomes false only
\* in a border turn; while ahead is true, a cycle away from the border
\* without contact answers a Left classification with the arc (100, 400), a
\* Right classification with the arc (400, 100), no classification with the
\* charge (400, 400), and never takes the search branch.
C16_StickyAhead ==
  [][ /\ ahead' # ahead => cycles' = cycles + 1
      /\ (~ahead /\ ahead') => lcd' = "A"
      /\ (ahead /\ ~ahead') => (lcd' = "B" /\ Hit(sensor_values'))
      /\ (cycles' = cycles + 1 /\ ahead /\ ~Hit(sensor_values') /\ lcd' # "C") =>
            /\ lcd' # "E"
            /\ ClassLeft' => (lcd' = "L" /\ motors' = <<100, 400>>)
            /\ ClassRight' => (lcd' = "R" /\ motors' = <<400, 100>>)
            /\ ClassNone' => (lcd' = "A" /\ motors' = <<400, 400>>)
            /\ ahead' ]_vars

\* an arc to the left in the cycle after an Ahead cycle, across a restart
C16_Witness ==
  /\ CycleEnd /\ cycles > 1 /\ restarts > 0
  /\ ahead /\ lcd = "L" /\ motors = <<100, 400>>
  /\ prox = Counts(3, 1, 0, 0)

\* the motor commands in a sequence of calls
MotorCommands(evs) == { i \in DOMAIN evs : evs[i].op = "setSpeeds" }

\* C17: a press is observed only between two invocations of loop(), after
\* the opening maneuver or turn of the cycle before has run to its end and
\* last_turn_time has been stamped; the press sets the motors to (0, 0) before
\* the controller blocks, and no other motor command is issued until the
\* countdown has finished and the state has been reset.
C17_ButtonOrdering ==
  [][ /\ (restarts' # restarts \/ pc' = "loop_wait") =>
            /\ pc = "loop" /\ pc' = "loop_wait" /\ restarts' = restarts + 1
            /\ cycles' = cycles /\ now' = now
            /\ lcd = "B" =>
                  (last_turn_time = now /\ trace[Len(trace)].op = "last_turn_time")
            /\ motors' = <<0, 0>>
            /\ trace' = <<Ev("setSpeeds", 0, 0)>>
      /\ (cycles' = cycles + 1 /\ lcd' = "B") =>
            /\ pc' = "loop"
            /\ last_turn_time' = now'
            /\ trace'[Len(trace')].op = "last_turn_time"
      /\ (cycles' = cycles + 1 /\ ~firstMoveDone) =>
            /\ firstMoveDone'
            /\ Ev("delay", 400, 0) \in { trace'[i] : i \in DOMAIN trace' }
            /\ Ev("setSpeeds", -400, -400) \in { trace'[i] : i \in DOMAIN trace' }
      /\ pc = "loop_wait" =>
            /\ pc' = "loop_resume" /\ cycles' = cycles
            /\ motors' = <<0, 0>>
            /\ MotorCommands(trace') = {1}
            /\ now' >= now + 5 * 990
            /\ in_contact' = FALSE /\ contact_made_time' = 0
            /\ last_turn_time' = now' /\ _forwardSpeed' = "SearchSpeed"
            /\ full_speed_start_time' = 0 ]_vars

\* a press observed at the top of the cycle that follows a border turn
C17_Witness ==
  /\ pc = "loop_wait" /\ lcd = "B"
  /\ motors = <<0, 0>>
  /\ last_turn_time = now /\ cycles > 0

C19_BorderKeepsStreak ==
  [][ /\ (cycles' = cycles + 1 /\ lcd' = "B") =>
            /\ roundGo' = roundGo /\ lastTime' = lastTime
            /\ contact_made_time' = contact_made_time
            /\ full_speed_start_time' = full_speed_start_time
            /\ ~ahead' /\ ~in_contact'
            /\ _forwardSpeed' = "SearchSpeed"
            /\ last_turn_time' = now'
      /\ (cycles' = cycles + 1 /\ lcd = "B" /\ roundGo /\ lcd' = "E") =>
            /\ roundGo' /\ lastTime' = lastTime
            /\ Ev("setSpeeds", -400, 400) \notin { trace'[i] : i \in DOMAIN trace' }
            /\ now' - lastTime <= 1000 => (trace' = <<>> /\ motors' = motors)
            /\ now' - lastTime > 1000 => motors' = <<-300, 300>> ]_vars

\* a search cycle after a border turn, less than 1000 ms after the streak
\* began: the forward command of the turn is still in effect
C19_Witness ==
  /\ CycleEnd /\ lcd = "E" /\ restarts = 0
  /\ roundGo /\ last_turn_time > lastTime
  /\ now - lastTime <= 1000
  /\ trace = <<>>
  /\ motors = <<SEARCH_SPEED, SEARCH_SPEED>>

\* C20: the clock being monotonic, a cycle that takes the contact branch
\* starts more than MIN_DELAY_BETWEEN_CONTACTS ms after the start of every
\* earlier cycle that took the contact or the Ahead branch, and more than
\* MIN_DELAY_AFTER_TURN ms after the end of every earlier turn.
C20_ContactSpacing ==
  \A i, j \in DOMAIN hist :
     i < j =>
       /\ hist[i].t <= hist[j].t
       /\ hist[j].op = "C" =>
             /\ hist[i].op \in {"C", "A"} =>
                   hist[j].t - hist[i].t > MIN_DELAY_BETWEEN_CONTACTS
             /\ hist[i].op = "B" =>
                   hist[j].t - hist[i].t > MIN_DELAY_AFTER_TURN

\* two cycles of one round that both took the contact branch
C20_Witness ==
  /\ restarts = 0
  /\ \E i, j \in DOMAIN hist :
        i < j /\ hist[i].op = "C" /\ hist[j].op = "C"

====
